---------------------------- MODULE Spec2Model ----------------------------
(***************************************************************************)
(* Seat reservation engine of booking/services.py: the seat table, the     *)
(* expiry sweep, hold / refresh / release, contact + claim code, claim     *)
(* transfer and the two admin finalize operations.                         *)
(*                                                                         *)
(* Spec   : every service function is one atomic step (one request at a    *)
(*          time); the wall clock may advance between the _now() reads of  *)
(*          one call.                                                      *)
(* SpecTx : two request workers run hold_seat as transactions at statement *)
(*          granularity over a store with row locks.                       *)
(* SpecMulti : two request workers run the multi-seat functions (attach,   *)
(*          claim, the two finalize variants) as transactions, likewise.   *)
(* SpecTight, SpecRoomy : Spec under a lower and a higher hold quota.      *)
(* SpecLife : Spec with the claim codes each seat has shed kept as history.*)
(***************************************************************************)
EXTENDS Integers, Sequences, FiniteSets

VARIABLES seats, clock, claimCnt, bookCnt, maxHold, last, tx, res, shed

vars == <<seats, clock, claimCnt, bookCnt, maxHold, last, tx, res, shed>>

-----------------------------------------------------------------------------
(* Bounds of the model *)

NumSeats == 2
MaxTime == 2
MaxMinutes == 2
MaxHoldPerSession == 2
MaxClaimCodes == 2
MaxBookingCodes == 1
MaxSeatCodes == 2

-----------------------------------------------------------------------------
(* Values *)

\* the one trip of the table (active); OtherTrip is an id with no active trip
TripId == "trip1"
OtherTrip == "trip9"
TripIds == {TripId, OtherTrip}

\* seat codes of the trip, ordered as order_by("code") orders them
Seats == 1..NumSeats
\* a code no seat of the trip carries (Seat.DoesNotExist)
NoSuchSeat == 0
SeatCodes == Seats \cup {NoSuchSeat}

Tokens == {"tokenA", "tokenB"}
NULL == "NULL"
NoTime == -1
NoCode == 0

HoldMinutes == 1..MaxMinutes

AVAILABLE == "AVAILABLE"
HOLD == "HOLD"
BOOKED == "BOOKED"

\* raw strings a caller may send, and str.strip() on them
NameInputs == {" Budi "}
WaInputs == {"0812", " 0813 "}
WaFilters == {NULL, "", "0812", " 0813 "}

Strip(s) ==
    CASE s = " Budi " -> "Budi"
      [] s = " 0813 " -> "0813"
      [] OTHER -> s

\* a claim code as typed by a caller: the code and the way it was typed
\* (lower case, padded with blanks)
ClaimForms == {" abcd-efgh "}
ClaimInputs == [code : 1..MaxClaimCodes, form : ClaimForms]

\* claim_code.strip().upper(): the typed form is normalised away
StripUpper(c) == c.code

\* messages of ServiceResult
MSG_QUOTA == "Maksimal hold kursi."
MSG_SEAT_NOT_FOUND == "Kursi tidak ditemukan."
MSG_BOOKED == "Kursi sudah terisi (BOOKED)."
MSG_HELD_BY_OTHER == "Kursi sedang di-hold user lain."
MSG_REFRESHED == "Hold diperpanjang."
MSG_ACQUIRED == "Kursi berhasil di-hold."
MSG_NOT_HELD == "Kursi tidak sedang di-hold aktif."
MSG_FORBIDDEN == "Tidak punya akses untuk melepas hold ini."
MSG_RELEASED == "Hold dilepas."
MSG_TRIP_NOT_FOUND == "Trip tidak ditemukan."
MSG_NO_ACTIVE_HOLD == "Tidak ada kursi hold aktif untuk token ini."
MSG_CLAIM_ATTACHED == "Kontak disimpan & claim code dibuat."
MSG_CLAIM_INVALID == "Claim code tidak valid atau sudah expired."
MSG_CLAIMED == "Hold berhasil di-claim."
MSG_SEATS_MISSING == "Ada kursi yang tidak ditemukan."
MSG_ALREADY_BOOKED == "Kursi sudah BOOKED"
MSG_BOOKED_WITH_CODE == "BOOKED + booking code dibuat."
MSG_CONFIRMED == "Kursi berhasil dikonfirmasi BOOKED."
MSG_OK == "OK"
MSG_NONE == "-"

\* a seat row as the provisioning creates it
NewSeat ==
    [status |-> AVAILABLE, hold_token |-> NULL, hold_until |-> NoTime,
     customer_name |-> NULL, customer_wa |-> NULL, claim_code |-> NoCode,
     booking_code |-> NoCode, booked_at |-> NoTime]

ServiceResult(ok, message) == [ok |-> ok, message |-> message]

-----------------------------------------------------------------------------
(* Housekeeping *)

\* (mutant) the sweep spares a hold for one more tick after its deadline
IsExpiredLate(row, now) ==
    row.status = HOLD /\ row.hold_until # NoTime /\ row.hold_until + 1 < now

\* the filter of the sweep: status = HOLD and hold_until < now (NULL never matches)
IsExpired(row, now) ==
    row.status = HOLD /\ row.hold_until # NoTime /\ row.hold_until < now

\* (mutant) the claim code stays on the row
ReleasedKeepClaim(row) ==
    [row EXCEPT !.status = AVAILABLE, !.hold_token = NULL, !.hold_until = NoTime,
                !.customer_name = NULL, !.customer_wa = NULL]

\* the fields the sweep's update() sets
Released(row) ==
    [row EXCEPT !.status = AVAILABLE, !.hold_token = NULL, !.hold_until = NoTime,
                !.customer_name = NULL, !.customer_wa = NULL, !.claim_code = NoCode]

expire_holds(S, now) ==
    [s \in Seats |-> IF IsExpired(S[s], now) THEN Released(S[s]) ELSE S[s]]

\* (mutant) every HOLD row is counted
ExpiredCountHolds(S, now) == Cardinality({s \in Seats : S[s].status = HOLD})

\* the return value of expire_holds: rows updated
ExpiredCount(S, now) == Cardinality({s \in Seats : IsExpired(S[s], now)})

\* (mutant) a hold counts as over at its deadline, not after it
IsActiveHoldStrict(row, now) ==
    row.status = HOLD /\ row.hold_until # NoTime /\ row.hold_until > now

\* status = HOLD and hold_until >= now: the filters of the engine
IsActiveHold(row, now) ==
    row.status = HOLD /\ row.hold_until # NoTime /\ row.hold_until >= now

count_holds_for_token(S, trip, token, now) ==
    Cardinality({s \in Seats : trip = TripId /\ IsActiveHold(S[s], now)
                               /\ S[s].hold_token = token})


-----------------------------------------------------------------------------
(* Hold logic *)

\* (mutant) the deadline is extended before the token is compared
HoldDecisionExtendFirst(row, token, minutes, now) ==
    IF row.status = BOOKED
    THEN [row |-> row, result |-> ServiceResult(FALSE, MSG_BOOKED)]
    ELSE IF IsActiveHold(row, now)
    THEN IF row.hold_token # token
         THEN [row |-> [row EXCEPT !.hold_until = now + minutes],
               result |-> ServiceResult(FALSE, MSG_HELD_BY_OTHER)]
         ELSE [row |-> [row EXCEPT !.hold_until = now + minutes],
               result |-> ServiceResult(TRUE, MSG_REFRESHED)]
    ELSE [row |-> [row EXCEPT !.status = HOLD, !.hold_token = token,
                              !.hold_until = now + minutes,
                              !.customer_name = NULL, !.customer_wa = NULL,
                              !.claim_code = NoCode, !.booked_at = NoTime,
                              !.booking_code = NoCode],
          result |-> ServiceResult(TRUE, MSG_ACQUIRED)]

\* (mutant) the acquire leaves hold_until unset
HoldDecisionNoDeadline(row, token, minutes, now) ==
    IF row.status = BOOKED
    THEN [row |-> row, result |-> ServiceResult(FALSE, MSG_BOOKED)]
    ELSE IF IsActiveHold(row, now)
    THEN IF row.hold_token # token
         THEN [row |-> row, result |-> ServiceResult(FALSE, MSG_HELD_BY_OTHER)]
         ELSE [row |-> [row EXCEPT !.hold_until = now + minutes],
               result |-> ServiceResult(TRUE, MSG_REFRESHED)]
    ELSE [row |-> [row EXCEPT !.status = HOLD, !.hold_token = token,
                              !.customer_name = NULL, !.customer_wa = NULL,
                              !.claim_code = NoCode, !.booked_at = NoTime,
                              !.booking_code = NoCode],
          result |-> ServiceResult(TRUE, MSG_ACQUIRED)]

\* (mutant) the refresh saves the row as an acquire would leave it
HoldDecisionRefreshResets(row, token, minutes, now) ==
    IF row.status = BOOKED
    THEN [row |-> row, result |-> ServiceResult(FALSE, MSG_BOOKED)]
    ELSE IF IsActiveHold(row, now)
    THEN IF row.hold_token # token
         THEN [row |-> row, result |-> ServiceResult(FALSE, MSG_HELD_BY_OTHER)]
         ELSE [row |-> [row EXCEPT !.hold_until = now + minutes,
                                   !.customer_name = NULL, !.customer_wa = NULL,
                                   !.claim_code = NoCode],
               result |-> ServiceResult(TRUE, MSG_REFRESHED)]
    ELSE [row |-> [row EXCEPT !.status = HOLD, !.hold_token = token,
                              !.hold_until = now + minutes,
                              !.customer_name = NULL, !.customer_wa = NULL,
                              !.claim_code = NoCode, !.booked_at = NoTime,
                              !.booking_code = NoCode],
          result |-> ServiceResult(TRUE, MSG_ACQUIRED)]

\* (mutant) the acquire keeps what the earlier hold left on the row
HoldDecisionKeepLeftovers(row, token, minutes, now) ==
    IF row.status = BOOKED
    THEN [row |-> row, result |-> ServiceResult(FALSE, MSG_BOOKED)]
    ELSE IF IsActiveHold(row, now)
    THEN IF row.hold_token # token
         THEN [row |-> row, result |-> ServiceResult(FALSE, MSG_HELD_BY_OTHER)]
         ELSE [row |-> [row EXCEPT !.hold_until = now + minutes],
               result |-> ServiceResult(TRUE, MSG_REFRESHED)]
    ELSE [row |-> [row EXCEPT !.status = HOLD, !.hold_token = token,
                              !.hold_until = now + minutes],
          result |-> ServiceResult(TRUE, MSG_ACQUIRED)]

\* hold_seat once the target row is loaded: BOOKED, held by another token,
\* same token (refresh), or available / expired (acquire)
HoldDecision(row, token, minutes, now) ==
    IF row.status = BOOKED
    THEN [row |-> row, result |-> ServiceResult(FALSE, MSG_BOOKED)]
    ELSE IF IsActiveHold(row, now)
    THEN IF row.hold_token # token
         THEN [row |-> row, result |-> ServiceResult(FALSE, MSG_HELD_BY_OTHER)]
         ELSE [row |-> [row EXCEPT !.hold_until = now + minutes],
               result |-> ServiceResult(TRUE, MSG_REFRESHED)]
    ELSE [row |-> [row EXCEPT !.status = HOLD, !.hold_token = token,
                              !.hold_until = now + minutes,
                              !.customer_name = NULL, !.customer_wa = NULL,
                              !.claim_code = NoCode, !.booked_at = NoTime,
                              !.booking_code = NoCode],
          result |-> ServiceResult(TRUE, MSG_ACQUIRED)]

\* the quota test that precedes the load of the row
QuotaReached(S, trip, token, max_hold_per_session, countNow) ==
    count_holds_for_token(S, trip, token, countNow) >= max_hold_per_session

\* S is the table after the sweep; now is hold_seat's own _now(), countNow the
\* one _count_holds_for_token reads after it
hold_seat(S, trip, code, token, minutes, max_hold_per_session, now, countNow) ==
    IF QuotaReached(S, trip, token, max_hold_per_session, countNow)
    THEN [seats |-> S, result |-> ServiceResult(FALSE, MSG_QUOTA)]
    ELSE IF trip # TripId \/ code \notin Seats
    THEN [seats |-> S, result |-> ServiceResult(FALSE, MSG_SEAT_NOT_FOUND)]
    ELSE LET d == HoldDecision(S[code], token, minutes, now)
         IN [seats |-> [S EXCEPT ![code] = d.row], result |-> d.result]

\* (mutant) the owner check is left out
release_seat_any_token(S, trip, code, token, now) ==
    IF trip # TripId \/ code \notin Seats
    THEN [seats |-> S, result |-> ServiceResult(FALSE, MSG_SEAT_NOT_FOUND)]
    ELSE IF S[code].status # HOLD \/ S[code].hold_until = NoTime
            \/ S[code].hold_until < now
    THEN [seats |-> S, result |-> ServiceResult(FALSE, MSG_NOT_HELD)]
    ELSE [seats |-> [S EXCEPT ![code] = Released(S[code])],
          result |-> ServiceResult(TRUE, MSG_RELEASED)]

release_seat(S, trip, code, token, now) ==
    IF trip # TripId \/ code \notin Seats
    THEN [seats |-> S, result |-> ServiceResult(FALSE, MSG_SEAT_NOT_FOUND)]
    ELSE IF S[code].status # HOLD \/ S[code].hold_until = NoTime
            \/ S[code].hold_until < now
    THEN [seats |-> S, result |-> ServiceResult(FALSE, MSG_NOT_HELD)]
    ELSE IF S[code].hold_token # token
    THEN [seats |-> S, result |-> ServiceResult(FALSE, MSG_FORBIDDEN)]
    ELSE [seats |-> [S EXCEPT ![code] = Released(S[code])],
          result |-> ServiceResult(TRUE, MSG_RELEASED)]

-----------------------------------------------------------------------------
(* Contact + claim *)

\* Seat.generate_claim_code(): a code no seat carries yet
GenerateClaimCode(n) == n + 1

\* Seat.generate_booking_code(): a code no seat carries yet
GenerateBookingCode(n) == n + 1

\* (mutant) the hold_token filter is left out
HeldByAnyToken(S, trip, token, now) ==
    {s \in Seats : trip = TripId /\ IsActiveHold(S[s], now)}

\* the rows attach_contact_and_generate_claim selects
HeldByToken(S, trip, token, now) ==
    {s \in Seats : trip = TripId /\ IsActiveHold(S[s], now) /\ S[s].hold_token = token}

\* seats.update(customer_name=..., customer_wa=..., claim_code=...)
AttachUpdate(row, name, wa, code) ==
    [row EXCEPT !.customer_name = Strip(name), !.customer_wa = Strip(wa),
                !.claim_code = code]

attach_contact_and_generate_claim(S, trip, token, name, wa, now, cnt) ==
    IF trip # TripId
    THEN [seats |-> S, result |-> ServiceResult(FALSE, MSG_TRIP_NOT_FOUND), cnt |-> cnt]
    ELSE IF HeldByToken(S, trip, token, now) = {}
    THEN [seats |-> S, result |-> ServiceResult(FALSE, MSG_NO_ACTIVE_HOLD), cnt |-> cnt]
    ELSE LET code == GenerateClaimCode(cnt)
         IN [seats |-> [s \in Seats |->
                          IF s \in HeldByToken(S, trip, token, now)
                          THEN AttachUpdate(S[s], name, wa, code) ELSE S[s]],
             result |-> ServiceResult(TRUE, MSG_CLAIM_ATTACHED),
             cnt |-> code]

\* `if customer_wa:` : None and the empty string add no filter
Truthy(wa) == wa # NULL /\ wa # ""

\* (mutant) of the rows that match, only the one first by code is taken
ClaimMatchFirst(S, trip, claim, wa, now) ==
    {s \in Seats : /\ trip = TripId
                   /\ IsActiveHold(S[s], now)
                   /\ S[s].claim_code = StripUpper(claim)
                   /\ (Truthy(wa) => S[s].customer_wa = Strip(wa))
                   /\ \A s2 \in Seats :
                         (IsActiveHold(S[s2], now) /\ S[s2].claim_code = StripUpper(claim))
                         => s <= s2}

\* the rows the Q of claim_hold_by_code selects
ClaimMatch(S, trip, claim, wa, now) ==
    {s \in Seats : /\ trip = TripId
                   /\ IsActiveHold(S[s], now)
                   /\ S[s].claim_code = StripUpper(claim)
                   /\ (Truthy(wa) => S[s].customer_wa = Strip(wa))}

\* (mutant) the transfer restarts the hold as an acquire would
ClaimUpdateRestart(row, newToken) ==
    [row EXCEPT !.hold_token = newToken, !.hold_until = row.hold_until + 1]

\* seats.update(hold_token=new_hold_token)
ClaimUpdate(row, newToken) == [row EXCEPT !.hold_token = newToken]

claim_hold_by_code(S, trip, claim, newToken, wa, now) ==
    IF ClaimMatch(S, trip, claim, wa, now) = {}
    THEN [seats |-> S, result |-> ServiceResult(FALSE, MSG_CLAIM_INVALID)]
    ELSE [seats |-> [s \in Seats |->
                       IF s \in ClaimMatch(S, trip, claim, wa, now)
                       THEN ClaimUpdate(S[s], newToken) ELSE S[s]],
          result |-> ServiceResult(TRUE, MSG_CLAIMED)]

-----------------------------------------------------------------------------
(* Admin: BOOKED *)

Range(q) == {q[i] : i \in DOMAIN q}

\* filter(trip_id=trip_id, code__in=seat_codes)
Requested(trip, codes) == IF trip = TripId THEN Range(codes) \cap Seats ELSE {}

\* (mutant) only the first requested code is tested for BOOKED
AlreadyBookedFirst(S, trip, codes) ==
    {s \in Requested(trip, codes) : S[s].status = BOOKED /\ s = codes[1]}

AlreadyBooked(S, trip, codes) ==
    {s \in Requested(trip, codes) : S[s].status = BOOKED}

\* (mutant) the primary variant also wipes the claim code
BookUpdateClearClaim(row, now, code) ==
    [row EXCEPT !.status = BOOKED, !.booked_at = now, !.booking_code = code,
                !.hold_token = NULL, !.hold_until = NoTime, !.claim_code = NoCode]

\* the update() of admin_generate_booking_code_and_book
BookUpdate(row, now, code) ==
    [row EXCEPT !.status = BOOKED, !.booked_at = now, !.booking_code = code,
                !.hold_token = NULL, !.hold_until = NoTime]

\* (mutant) the hold fields stay on the booked row
ConfirmUpdateKeepHold(row, now) ==
    [row EXCEPT !.status = BOOKED, !.booked_at = now]

\* the update() of confirm_booked_by_admin
ConfirmUpdate(row, now) ==
    [row EXCEPT !.status = BOOKED, !.booked_at = now,
                !.hold_token = NULL, !.hold_until = NoTime]

admin_generate_booking_code_and_book(S, trip, codes, now, cnt) ==
    IF Cardinality(Requested(trip, codes)) # Len(codes)
    THEN [seats |-> S, result |-> ServiceResult(FALSE, MSG_SEATS_MISSING), cnt |-> cnt]
    ELSE IF AlreadyBooked(S, trip, codes) # {}
    THEN [seats |-> S, result |-> ServiceResult(FALSE, MSG_ALREADY_BOOKED), cnt |-> cnt]
    ELSE LET code == GenerateBookingCode(cnt)
         IN [seats |-> [s \in Seats |->
                          IF s \in Requested(trip, codes)
                          THEN BookUpdate(S[s], now, code) ELSE S[s]],
             result |-> ServiceResult(TRUE, MSG_BOOKED_WITH_CODE),
             cnt |-> code]

confirm_booked_by_admin(S, trip, codes, now) ==
    IF Cardinality(Requested(trip, codes)) # Len(codes)
    THEN [seats |-> S, result |-> ServiceResult(FALSE, MSG_SEATS_MISSING)]
    ELSE IF AlreadyBooked(S, trip, codes) # {}
    THEN [seats |-> S, result |-> ServiceResult(FALSE, MSG_ALREADY_BOOKED)]
    ELSE [seats |-> [s \in Seats |->
                       IF s \in Requested(trip, codes)
                       THEN ConfirmUpdate(S[s], now) ELSE S[s]],
          result |-> ServiceResult(TRUE, MSG_CONFIRMED)]

-----------------------------------------------------------------------------
(* Public payloads *)

\* (mutant) the projection also carries the claim code
SeatMapWithClaim(S) ==
    [s \in Seats |-> [code |-> s, status |-> S[s].status, hold_until |-> S[s].hold_until,
                      claim_code |-> S[s].claim_code]]

\* the "seats" list of get_seat_map, by code
SeatMap(S) ==
    [s \in Seats |-> [code |-> s, status |-> S[s].status, hold_until |-> S[s].hold_until]]

get_seat_map(S, trip) ==
    IF trip # TripId
    THEN [result |-> ServiceResult(FALSE, MSG_TRIP_NOT_FOUND), data |-> <<>>]
    ELSE [result |-> ServiceResult(TRUE, MSG_OK), data |-> SeatMap(S)]


-----------------------------------------------------------------------------
(* State *)

\* One call of a behaviour is the observed call: `last` records its arguments,
\* the table and the clock it started from, its own _now() and its
\* ServiceResult.  The calls before it leave `last` at NoCall, and a behaviour
\* is followed no further after its observed call: every continuation is the
\* continuation of the same table reached with nothing recorded.
Call(op, trip, seat, token, codes, claim, wa, now, result) ==
    [op |-> op, trip |-> trip, seat |-> seat, token |-> token, codes |-> codes,
     claim |-> claim, wa |-> wa, now |-> now,
     ok |-> result.ok, message |-> result.message,
     pre |-> seats, began |-> clock]

NoCall ==
    [op |-> "none", trip |-> TripId, seat |-> NoSuchSeat, token |-> NULL,
     codes |-> <<>>, claim |-> NoCode, wa |-> NULL, now |-> 0,
     ok |-> TRUE, message |-> MSG_NONE,
     pre |-> [s \in Seats |-> NewSeat], began |-> 0]

Observe(call) == \E observed \in BOOLEAN : last' = IF observed THEN call ELSE NoCall

\* maxHold is the max_hold_per_session the caller passes on every hold_seat
\* call of a behaviour

\* a request worker with no transaction open
IdleTx ==
    [pc |-> "idle", trip |-> TripId, seat |-> NoSuchSeat, token |-> NULL,
     minutes |-> 0, now |-> 0, swept |-> {}, row |-> NewSeat]

NoRes == ServiceResult(TRUE, MSG_NONE)

Procs == {"w1", "w2"}

\* shed[s] is history, kept for SpecLife only: the claim codes seat s carried
\* on holds that are over
NoneShed == [s \in Seats |-> {}]

Start ==
    /\ seats = [s \in Seats |-> NewSeat]
    /\ clock = 0
    /\ claimCnt = 0
    /\ bookCnt = 0
    /\ last = NoCall
    /\ tx = [p \in Procs |-> IdleTx]
    /\ res = [p \in Procs |-> NoRes]
    /\ shed = NoneShed

Init == Start /\ maxHold = MaxHoldPerSession

\* the same service under a quota one lower
InitTight == Start /\ maxHold = MaxHoldPerSession - 1

\* the readings of the wall clock one call can make, in order
Times(from) == from..MaxTime

\* seat_codes lists of an admin call; code__in and len() do not depend on
\* the order of the list, so the lists are taken in ascending order
SeatCodeLists ==
    {q \in UNION {[1..n -> SeatCodes] : n \in 0..MaxSeatCodes} :
        \A i \in DOMAIN q : \A j \in DOMAIN q : i <= j => q[i] <= q[j]}

\* (trip_id, claim_code) and (trip_id, seat_codes) arguments, likewise
ClaimArgs ==
    {<<TripId, c>> : c \in ClaimInputs}
        \cup {<<OtherTrip, [code |-> 1, form |-> " abcd-efgh "]>>}

AdminArgs == {<<TripId, q>> : q \in SeatCodeLists} \cup {<<OtherTrip, <<1>>>>}

\* (trip_id, seat_code) arguments: every code under the trip, and one under an
\* id that names no trip
SeatArgs == {<<TripId, c>> : c \in SeatCodes} \cup {<<OtherTrip, 1>>}

-----------------------------------------------------------------------------
(* One request at a time *)

Tick ==
    /\ clock < MaxTime
    /\ clock' = clock + 1
    /\ UNCHANGED <<seats, claimCnt, bookCnt, maxHold, last, tx, res>>

\* every call starts with the sweep, which reads the clock as the call begins
\* (Tick lets any time pass before that); the later _now() reads of the call
\* may see a later time

ExpireHoldsCall ==
    /\ seats' = expire_holds(seats, clock)
    /\ Observe(Call("expire_holds", TripId, ExpiredCount(seats, clock), NULL, <<>>,
                    NoCode, NULL, clock, ServiceResult(TRUE, MSG_NONE)))
    /\ UNCHANGED <<clock, claimCnt, bookCnt, maxHold, tx, res>>

GetSeatMap(trip) ==
    LET r == get_seat_map(expire_holds(seats, clock), trip)
    IN /\ seats' = expire_holds(seats, clock)
       /\ Observe(Call("get_seat_map", trip, NoSuchSeat, NULL, r.data,
                       NoCode, NULL, clock, r.result))
       /\ UNCHANGED <<clock, claimCnt, bookCnt, maxHold, tx, res>>

\* _count_holds_for_token reads the clock right after hold_seat does: one
\* reading serves both here (SpecTx below keeps the two readings apart)
HoldSeat(trip, code, token, minutes) ==
    \E now \in Times(clock) :
        LET r == hold_seat(expire_holds(seats, clock), trip, code, token, minutes,
                           maxHold, now, now)
        IN /\ seats' = r.seats
           /\ clock' = now
           /\ Observe(Call("hold_seat", trip, code, token, <<>>, NoCode, NULL,
                           now, r.result))
           /\ UNCHANGED <<claimCnt, bookCnt, maxHold, tx, res>>

ReleaseSeat(trip, code, token) ==
    \E now \in Times(clock) :
        LET r == release_seat(expire_holds(seats, clock), trip, code, token, now)
        IN /\ seats' = r.seats
           /\ clock' = now
           /\ Observe(Call("release_seat", trip, code, token, <<>>, NoCode, NULL,
                           now, r.result))
           /\ UNCHANGED <<claimCnt, bookCnt, maxHold, tx, res>>

AttachContact(trip, token, name, wa) ==
    \E now \in Times(clock) :
        LET r == attach_contact_and_generate_claim(expire_holds(seats, clock), trip,
                                                   token, name, wa, now, claimCnt)
        IN /\ r.cnt <= MaxClaimCodes
           /\ seats' = r.seats
           /\ claimCnt' = r.cnt
           /\ clock' = now
           /\ Observe(Call("attach_contact_and_generate_claim", trip, NoSuchSeat,
                           token, <<>>, IF r.result.ok THEN r.cnt ELSE NoCode, wa,
                           now, r.result))
           /\ UNCHANGED <<bookCnt, maxHold, tx, res>>

ClaimHold(trip, claim, newToken, wa) ==
    \E now \in Times(clock) :
        LET r == claim_hold_by_code(expire_holds(seats, clock), trip, claim,
                                    newToken, wa, now)
        IN /\ seats' = r.seats
           /\ clock' = now
           /\ Observe(Call("claim_hold_by_code", trip, NoSuchSeat, newToken, <<>>,
                           StripUpper(claim), wa, now, r.result))
           /\ UNCHANGED <<claimCnt, bookCnt, maxHold, tx, res>>

AdminBook(trip, codes) ==
    \E now \in Times(clock) :
        LET r == admin_generate_booking_code_and_book(expire_holds(seats, clock), trip,
                                                      codes, now, bookCnt)
        IN /\ r.cnt <= MaxBookingCodes
           /\ seats' = r.seats
           /\ bookCnt' = r.cnt
           /\ clock' = now
           /\ Observe(Call("admin_generate_booking_code_and_book", trip, NoSuchSeat,
                           NULL, codes, NoCode, NULL, now, r.result))
           /\ UNCHANGED <<claimCnt, maxHold, tx, res>>

ConfirmBooked(trip, codes) ==
    \E now \in Times(clock) :
        LET r == confirm_booked_by_admin(expire_holds(seats, clock), trip, codes, now)
        IN /\ seats' = r.seats
           /\ clock' = now
           /\ Observe(Call("confirm_booked_by_admin", trip, NoSuchSeat, NULL, codes,
                           NoCode, NULL, now, r.result))
           /\ UNCHANGED <<claimCnt, bookCnt, maxHold, tx, res>>

Serve ==
    \/ Tick
    \/ ExpireHoldsCall
    \/ \E trip \in TripIds : GetSeatMap(trip)
    \/ \E a \in SeatArgs, token \in Tokens, m \in HoldMinutes :
          HoldSeat(a[1], a[2], token, m)
    \/ \E a \in SeatArgs, token \in Tokens : ReleaseSeat(a[1], a[2], token)
    \/ \E trip \in TripIds, token \in Tokens, name \in NameInputs, wa \in WaInputs :
          AttachContact(trip, token, name, wa)
    \/ \E a \in ClaimArgs, token \in Tokens, wa \in WaFilters :
          ClaimHold(a[1], a[2], token, wa)
    \/ \E a \in AdminArgs : AdminBook(a[1], a[2])
    \/ \E a \in AdminArgs : ConfirmBooked(a[1], a[2])

Next == last = NoCall /\ Serve /\ UNCHANGED shed

Spec == Init /\ [][Next]_vars

SpecTight == InitTight /\ [][Next]_vars

\* the same service under a quota one higher: a session that holds every seat
\* is still below it
InitRoomy == Start /\ maxHold = MaxHoldPerSession + 1

SpecRoomy == InitRoomy /\ [][Next]_vars

\* the claim codes whose way through the seats is followed: the first issued
Followed == {GenerateClaimCode(0)}

\* the codes a call takes off the seats: a seat that carried a followed claim
\* code and carries none after the call (swept, released or acquired anew)
\* has shed it
Shedding ==
    shed' = [s \in Seats |->
                IF seats[s].claim_code \in Followed /\ seats'[s].claim_code = NoCode
                THEN shed[s] \cup {seats[s].claim_code} ELSE shed[s]]

NextLife == last = NoCall /\ Serve /\ Shedding

SpecLife == Init /\ [][NextLife]_vars

-----------------------------------------------------------------------------
(* Two hold_seat calls as transactions.                                    *)
(* The store gives each statement the latest committed rows plus the       *)
(* transaction's own writes; an UPDATE and a SELECT ... FOR UPDATE wait    *)
(* while a row they touch is locked by the other transaction; a commit     *)
(* publishes the writes and drops the locks.  @transaction.atomic commits  *)
(* when the function returns, whatever ServiceResult it returns.           *)

\* rows whose lock worker p holds: those its sweep updated, and the row its
\* select_for_update() returned
LockedBy(p) ==
    tx[p].swept \cup (IF tx[p].pc = "locked" THEN {tx[p].seat} ELSE {})

\* (mutant) the row is read without waiting for its lock
CanLockNoWait(p, s) == TRUE

\* select_for_update() / UPDATE: may proceed on row s only when no other
\* transaction holds its lock
CanLock(p, s) == \A q \in Procs \ {p} : s \notin LockedBy(q)

\* the table as worker p's statements read it
View(p) ==
    [s \in Seats |-> IF s \in tx[p].swept THEN Released(seats[s]) ELSE seats[s]]

Commit(p, table, result) ==
    /\ seats' = table
    /\ res' = [res EXCEPT ![p] = result]
    /\ tx' = [tx EXCEPT ![p].pc = "done", ![p].swept = {}]

\* the call arrives: expire_holds() runs its UPDATE
TxBegin(p, trip, code, token, minutes) ==
    /\ tx[p].pc = "idle"
    /\ \A s \in Seats : IsExpired(seats[s], clock) => CanLock(p, s)
    /\ tx' = [tx EXCEPT ![p] = [pc |-> "swept", trip |-> trip, seat |-> code,
                                token |-> token, minutes |-> minutes, now |-> 0,
                                swept |-> {s \in Seats : IsExpired(seats[s], clock)},
                                row |-> NewSeat]]
    /\ UNCHANGED <<seats, clock, claimCnt, bookCnt, maxHold, last, res>>

\* now = _now()
TxNow(p) ==
    /\ tx[p].pc = "swept"
    /\ tx' = [tx EXCEPT ![p].pc = "timed", ![p].now = clock]
    /\ UNCHANGED <<seats, clock, claimCnt, bookCnt, maxHold, last, res>>

\* _count_holds_for_token(): a plain SELECT, it takes no lock
TxCountFail(p) ==
    /\ tx[p].pc = "timed"
    /\ QuotaReached(View(p), tx[p].trip, tx[p].token, maxHold, clock)
    /\ Commit(p, View(p), ServiceResult(FALSE, MSG_QUOTA))
    /\ UNCHANGED <<clock, claimCnt, bookCnt, maxHold, last>>

TxCountPass(p) ==
    /\ tx[p].pc = "timed"
    /\ ~QuotaReached(View(p), tx[p].trip, tx[p].token, maxHold, clock)
    /\ tx' = [tx EXCEPT ![p].pc = "counted"]
    /\ UNCHANGED <<seats, clock, claimCnt, bookCnt, maxHold, last, res>>

\* Seat.objects.select_for_update().get(...): no such row
TxNotFound(p) ==
    /\ tx[p].pc = "counted"
    /\ tx[p].trip # TripId \/ tx[p].seat \notin Seats
    /\ Commit(p, View(p), ServiceResult(FALSE, MSG_SEAT_NOT_FOUND))
    /\ UNCHANGED <<clock, claimCnt, bookCnt, maxHold, last>>

\* Seat.objects.select_for_update().get(...): the row, locked
TxLock(p) ==
    /\ tx[p].pc = "counted"
    /\ tx[p].trip = TripId /\ tx[p].seat \in Seats
    /\ CanLock(p, tx[p].seat)
    /\ tx' = [tx EXCEPT ![p].pc = "locked", ![p].row = View(p)[tx[p].seat]]
    /\ UNCHANGED <<seats, clock, claimCnt, bookCnt, maxHold, last, res>>

\* what the save writes: save(update_fields=["hold_until", ...]) on a refresh,
\* the whole loaded row on an acquire, nothing on a failure
Saved(current, decided) ==
    IF decided.result.message = MSG_REFRESHED
    THEN [current EXCEPT !.hold_until = decided.row.hold_until]
    ELSE IF decided.result.message = MSG_ACQUIRED THEN decided.row
    ELSE current

\* the decision on the loaded row, the save, the return and the commit
TxFinish(p) ==
    /\ tx[p].pc = "locked"
    /\ LET d == HoldDecision(tx[p].row, tx[p].token, tx[p].minutes, tx[p].now)
       IN Commit(p, [View(p) EXCEPT ![tx[p].seat] = Saved(View(p)[tx[p].seat], d)],
                 d.result)
    /\ UNCHANGED <<clock, claimCnt, bookCnt, maxHold, last>>

TxTick ==
    /\ clock < MaxTime
    /\ clock' = clock + 1
    /\ UNCHANGED <<seats, claimCnt, bookCnt, maxHold, last, tx, res>>

\* seats may have been booked before the two calls arrive
InitTx ==
    /\ \E booked \in SUBSET Seats :
          seats = [s \in Seats |-> IF s \in booked THEN ConfirmUpdate(NewSeat, 0)
                                   ELSE NewSeat]
    /\ clock = 0
    /\ claimCnt = 0
    /\ bookCnt = 0
    /\ maxHold \in 1..MaxHoldPerSession
    /\ last = NoCall
    /\ tx = [p \in Procs |-> IdleTx]
    /\ res = [p \in Procs |-> NoRes]
    /\ shed = NoneShed

NextTx ==
    /\ UNCHANGED shed
    /\ \/ TxTick
       \/ \E p \in Procs, a \in SeatArgs, token \in Tokens, m \in HoldMinutes :
             TxBegin(p, a[1], a[2], token, m)
       \/ \E p \in Procs : TxNow(p)
       \/ \E p \in Procs : TxCountFail(p)
       \/ \E p \in Procs : TxCountPass(p)
       \/ \E p \in Procs : TxNotFound(p)
       \/ \E p \in Procs : TxLock(p)
       \/ \E p \in Procs : TxFinish(p)

SpecTx == InitTx /\ [][NextTx]_vars

-----------------------------------------------------------------------------
(* Two multi-seat calls as transactions: the finalize variants, the attach  *)
(* and the claim.  The store is the one described above.  A locking read    *)
(* (select_for_update) locks the rows it returns and only those; count()    *)
(* and aggregate() are plain reads; an UPDATE visits the rows its WHERE     *)
(* matched when the statement began, in an order the code does not fix      *)
(* (update() carries no ORDER BY), waits for each row's lock, tests the     *)
(* WHERE again on the row as last committed and writes it if it still       *)
(* matches.                                                                 *)

MultiOps == {"book", "confirm", "attach", "claim"}

IdleMulti ==
    [pc |-> "idle", op |-> "book", codes |-> <<>>, token |-> NULL, claim |-> NoCode,
     now |-> 0, locks |-> {}, dirty |-> {}, rows |-> [s \in Seats |-> NewSeat],
     todo |-> {}, code |-> NoCode]

\* raised in place of a ServiceResult when the store breaks a lock cycle
MSG_DEADLOCK == "OperationalError: deadlock detected"

\* the table as worker p's statements read it: committed rows and its own writes
ViewM(p) == [s \in Seats |-> IF s \in tx[p].dirty THEN tx[p].rows[s] ELSE seats[s]]

CanLockM(p, s) == \A q \in Procs \ {p} : s \notin tx[q].locks

\* the WHERE of the call's queryset, on one row
Matches(p, row) ==
    CASE tx[p].op \in {"book", "confirm"} -> TRUE
      [] tx[p].op = "attach" -> IsActiveHold(row, tx[p].now) /\ row.hold_token = tx[p].token
      [] tx[p].op = "claim" -> IsActiveHold(row, tx[p].now) /\ row.claim_code = tx[p].claim

\* the rows of the call's queryset as worker p reads them
Selected(p) ==
    {s \in Seats : /\ tx[p].op \in {"book", "confirm"} => s \in Range(tx[p].codes)
                   /\ Matches(p, ViewM(p)[s])}

\* the row the call's update() writes
Written(p, row) ==
    CASE tx[p].op = "book" -> BookUpdate(row, tx[p].now, tx[p].code)
      [] tx[p].op = "confirm" -> ConfirmUpdate(row, tx[p].now)
      [] tx[p].op = "attach" -> AttachUpdate(row, " Budi ", "0812", tx[p].code)
      [] tx[p].op = "claim" -> ClaimUpdate(row, tx[p].token)

Success(op) ==
    CASE op = "book" -> MSG_BOOKED_WITH_CODE
      [] op = "confirm" -> MSG_CONFIRMED
      [] op = "attach" -> MSG_CLAIM_ATTACHED
      [] op = "claim" -> MSG_CLAIMED

\* return: transaction.atomic commits the writes and drops the locks
CommitM(p, result) ==
    /\ seats' = ViewM(p)
    /\ res' = [res EXCEPT ![p] = result]
    /\ tx' = [tx EXCEPT ![p].pc = "done", ![p].locks = {}, ![p].dirty = {}]

\* the call arrives: expire_holds() runs its UPDATE, then now = _now()
MBegin(p, op, codes, token, claim) ==
    /\ tx[p].pc = "idle"
    /\ \A s \in Seats : IsExpired(seats[s], clock) => CanLockM(p, s)
    /\ tx' = [tx EXCEPT ![p] =
                 [pc |-> "swept", op |-> op, codes |-> codes, token |-> token,
                  claim |-> claim, now |-> clock,
                  locks |-> {s \in Seats : IsExpired(seats[s], clock)},
                  dirty |-> {s \in Seats : IsExpired(seats[s], clock)},
                  rows |-> expire_holds(seats, clock), todo |-> {}, code |-> NoCode]]
    /\ UNCHANGED <<seats, clock, claimCnt, bookCnt, maxHold, last, res>>

\* seats.count() != len(seat_codes): a plain read
MCountFail(p) ==
    /\ tx[p].pc = "swept" /\ tx[p].op \in {"book", "confirm"}
    /\ Cardinality(Selected(p)) # Len(tx[p].codes)
    /\ CommitM(p, ServiceResult(FALSE, MSG_SEATS_MISSING))
    /\ UNCHANGED <<clock, claimCnt, bookCnt, maxHold, last>>

MCountPass(p) ==
    /\ tx[p].pc = "swept" /\ tx[p].op \in {"book", "confirm"}
    /\ Cardinality(Selected(p)) = Len(tx[p].codes)
    /\ tx' = [tx EXCEPT ![p].pc = "counted"]
    /\ UNCHANGED <<seats, clock, claimCnt, bookCnt, maxHold, last, res>>

\* list(seats.filter(status=BOOKED).values_list("code")): a locking read of
\* the BOOKED rows among the requested ones
MBookedFail(p) ==
    /\ tx[p].pc = "counted"
    /\ {s \in Selected(p) : ViewM(p)[s].status = BOOKED} # {}
    /\ \A s \in Selected(p) : ViewM(p)[s].status = BOOKED => CanLockM(p, s)
    /\ CommitM(p, ServiceResult(FALSE, MSG_ALREADY_BOOKED))
    /\ UNCHANGED <<clock, claimCnt, bookCnt, maxHold, last>>

MBookedPass(p) ==
    /\ tx[p].pc = "counted"
    /\ {s \in Selected(p) : ViewM(p)[s].status = BOOKED} = {}
    /\ tx' = [tx EXCEPT ![p].pc = "ready"]
    /\ UNCHANGED <<seats, clock, claimCnt, bookCnt, maxHold, last, res>>

\* seats.exists(): a locking read of one row of the queryset, none found
MExistsFail(p) ==
    /\ tx[p].pc = "swept" /\ tx[p].op \in {"attach", "claim"}
    /\ Selected(p) = {}
    /\ CommitM(p, ServiceResult(FALSE, IF tx[p].op = "attach" THEN MSG_NO_ACTIVE_HOLD
                                       ELSE MSG_CLAIM_INVALID))
    /\ UNCHANGED <<clock, claimCnt, bookCnt, maxHold, last>>

\* seats.exists(): one row found and locked
MExistsPass(p) ==
    /\ tx[p].pc = "swept" /\ tx[p].op \in {"attach", "claim"}
    /\ \E s \in Selected(p) :
          /\ CanLockM(p, s)
          /\ tx' = [tx EXCEPT ![p].pc = "ready", ![p].locks = @ \cup {s}]
    /\ UNCHANGED <<seats, clock, claimCnt, bookCnt, maxHold, last, res>>

\* the code is generated and seats.update(...) begins: its WHERE picks the rows
MUpdateStart(p) ==
    /\ tx[p].pc = "ready"
    /\ tx' = [tx EXCEPT ![p].pc = "updating", ![p].todo = Selected(p),
                        ![p].code = CASE tx[p].op = "book" -> GenerateBookingCode(bookCnt)
                                      [] tx[p].op = "attach" -> GenerateClaimCode(claimCnt)
                                      [] OTHER -> NoCode]
    /\ bookCnt' = IF tx[p].op = "book" THEN GenerateBookingCode(bookCnt) ELSE bookCnt
    /\ claimCnt' = IF tx[p].op = "attach" THEN GenerateClaimCode(claimCnt) ELSE claimCnt
    /\ UNCHANGED <<seats, clock, maxHold, last, res>>

\* the UPDATE reaches row s: it takes the lock, tests the WHERE on the row as
\* last committed and writes it
MUpdateRow(p, s) ==
    /\ tx[p].pc = "updating" /\ s \in tx[p].todo
    /\ CanLockM(p, s)
    /\ tx' = [tx EXCEPT ![p].todo = @ \ {s},
                        ![p].locks = @ \cup {s},
                        ![p].dirty = IF Matches(p, ViewM(p)[s]) THEN @ \cup {s} ELSE @,
                        ![p].rows = IF Matches(p, ViewM(p)[s])
                                    THEN [@ EXCEPT ![s] = Written(p, ViewM(p)[s])]
                                    ELSE @]
    /\ UNCHANGED <<seats, clock, claimCnt, bookCnt, maxHold, last, res>>

\* the UPDATE is over; the call returns its success
MReturn(p) ==
    /\ tx[p].pc = "updating" /\ tx[p].todo = {}
    /\ CommitM(p, ServiceResult(TRUE, Success(tx[p].op)))
    /\ UNCHANGED <<clock, claimCnt, bookCnt, maxHold, last>>

\* worker p waits for a row lock that worker q holds
WaitsFor(p, q) ==
    /\ tx[p].pc = "updating" /\ tx[p].todo # {}
    /\ \A s \in tx[p].todo : s \in tx[q].locks

\* each of the two UPDATEs waits for a row the other has locked
Deadlocked == \E p \in Procs : \E q \in Procs \ {p} : WaitsFor(p, q) /\ WaitsFor(q, p)

\* the store breaks the cycle: one statement raises, its transaction rolls back
MDeadlockAbort(p) ==
    /\ Deadlocked
    /\ tx' = [tx EXCEPT ![p].pc = "done", ![p].locks = {}, ![p].dirty = {}, ![p].todo = {}]
    /\ res' = [res EXCEPT ![p] = ServiceResult(FALSE, MSG_DEADLOCK)]
    /\ UNCHANGED <<seats, clock, claimCnt, bookCnt, maxHold, last>>

\* a seat on hold under tokenA, with contact and claim code 1 attached
HeldRow(until) ==
    [NewSeat EXCEPT !.status = HOLD, !.hold_token = "tokenA", !.hold_until = until,
                    !.customer_name = Strip(" Budi "), !.customer_wa = Strip("0812"),
                    !.claim_code = 1]

\* the tables the two calls may find: seats available, on hold (running or
\* lapsed) or booked; last.pre keeps the table for reference
InitMulti ==
    /\ seats \in [Seats -> {NewSeat, HeldRow(MaxTime), HeldRow(0), ConfirmUpdate(NewSeat, 0)}]
    /\ clock = 1
    /\ claimCnt = 1
    /\ bookCnt = 0
    /\ maxHold = MaxHoldPerSession
    /\ last = [NoCall EXCEPT !.pre = seats]
    /\ tx = [p \in Procs |-> IdleMulti]
    /\ res = [p \in Procs |-> NoRes]
    /\ shed = NoneShed

NextMulti ==
    /\ UNCHANGED shed
    /\ \/ \E p \in Procs, op \in {"book", "confirm"}, codes \in SeatCodeLists :
             MBegin(p, op, codes, NULL, NoCode)
       \/ \E p \in Procs, token \in Tokens : MBegin(p, "attach", <<>>, token, NoCode)
       \/ \E p \in Procs, token \in Tokens, c \in ClaimInputs :
             MBegin(p, "claim", <<>>, token, StripUpper(c))
       \/ \E p \in Procs : MCountFail(p)
       \/ \E p \in Procs : MCountPass(p)
       \/ \E p \in Procs : MBookedFail(p)
       \/ \E p \in Procs : MBookedPass(p)
       \/ \E p \in Procs : MExistsFail(p)
       \/ \E p \in Procs : MExistsPass(p)
       \/ \E p \in Procs : MUpdateStart(p)
       \/ \E p \in Procs, s \in Seats : MUpdateRow(p, s)
       \/ \E p \in Procs : MReturn(p)
       \/ \E p \in Procs : MDeadlockAbort(p)

SpecMulti == InitMulti /\ [][NextMulti]_vars

-----------------------------------------------------------------------------
(* Properties *)

Done(p) == tx[p].pc = "done"

Acquired == ServiceResult(TRUE, MSG_ACQUIRED)
HeldByOther == ServiceResult(FALSE, MSG_HELD_BY_OTHER)

\* two finished hold_seat calls with different tokens on one seat of the trip
\* that was AVAILABLE, each made within the other's hold duration
TwoAttempts(p, q) ==
    /\ p # q /\ Done(p) /\ Done(q)
    /\ tx[p].trip = TripId /\ tx[q].trip = TripId
    /\ tx[p].seat \in Seats /\ tx[q].seat = tx[p].seat
    /\ tx[p].token # tx[q].token
    /\ seats[tx[p].seat].status # BOOKED
    /\ tx[q].now <= tx[p].now + tx[p].minutes
    /\ tx[p].now <= tx[q].now + tx[q].minutes

\* C1: of two hold_seat attempts with different tokens on the same AVAILABLE
\* seat, in any interleaving of their statements, exactly one returns
\* "acquired", the other fails with the held-by-other error, and the seat ends
\* HOLD under the winner's token with the hold_until the winner wrote.
C1_HoldIsExclusive ==
    \A p \in Procs : \A q \in Procs :
        TwoAttempts(p, q) =>
            \E w \in {p, q} : \E l \in {p, q} \ {w} :
                /\ res[w] = Acquired
                /\ res[l] = HeldByOther
                /\ seats[tx[w].seat].status = HOLD
                /\ seats[tx[w].seat].hold_token = tx[w].token
                /\ seats[tx[w].seat].hold_until = tx[w].now + tx[w].minutes

\* the loser read its clock before the winner did and still lost: the two
\* calls overlapped
C1_Witness ==
    \E p \in Procs : \E q \in Procs :
        /\ TwoAttempts(p, q)
        /\ res[p] = Acquired /\ res[q] = HeldByOther
        /\ tx[q].now < tx[p].now

-----------------------------------------------------------------------------
(* Properties of the calls served one at a time.  They are written against *)
(* the rows, not against the operators of the model.                       *)

EngineOps ==
    {"hold_seat", "release_seat", "attach_contact_and_generate_claim",
     "claim_hold_by_code", "admin_generate_booking_code_and_book",
     "confirm_booked_by_admin"}

\* row is HOLD and its deadline has not passed at time t
HeldAt(row, t) == row.status = HOLD /\ row.hold_until # NoTime /\ row.hold_until >= t

\* row is HOLD and its deadline passed before time t
StaleAt(row, t) == row.status = HOLD /\ row.hold_until # NoTime /\ row.hold_until < t

\* what the leading sweep of a call that began at time t leaves of a row
AfterSweep(row, t) ==
    IF StaleAt(row, t)
    THEN [status |-> AVAILABLE, hold_token |-> NULL, hold_until |-> NoTime,
          customer_name |-> NULL, customer_wa |-> NULL, claim_code |-> NoCode,
          booking_code |-> row.booking_code, booked_at |-> row.booked_at]
    ELSE row

\* seats of the trip that token holds, unexpired at time t, in table S
HoldsOf(S, token, t) == {s \in Seats : HeldAt(S[s], t) /\ S[s].hold_token = token}

\* C2: when every hold_seat call uses the same max_hold_per_session, no token
\* ever holds more unexpired seats of the trip than that, and a hold attempt
\* on a further seat by a session already holding that many fails on the quota.
C2_QuotaEnforced ==
    /\ \A token \in Tokens : Cardinality(HoldsOf(seats, token, clock)) <= maxHold
    /\ (/\ last.op = "hold_seat" /\ last.trip = TripId /\ last.seat \in Seats
        /\ Cardinality(HoldsOf(last.pre, last.token, last.now)) >= maxHold
        /\ last.seat \notin HoldsOf(last.pre, last.token, last.now))
       => (~last.ok /\ last.message = MSG_QUOTA)

\* C3: hold_seat on a seat that is HOLD, unexpired and under the caller's token
\* always succeeds, never moves hold_until back and keeps hold_token.
C3_SameTokenRefresh ==
    (/\ last.op = "hold_seat" /\ last.trip = TripId /\ last.seat \in Seats
     /\ HeldAt(last.pre[last.seat], last.now)
     /\ last.pre[last.seat].hold_token = last.token)
    => /\ last.ok
       /\ seats[last.seat].hold_until >= last.pre[last.seat].hold_until
       /\ seats[last.seat].hold_token = last.token

\* C3, second half alone: a refresh that succeeds never moves hold_until back
C3_RefreshNeverShortens ==
    (last.op = "hold_seat" /\ last.message = MSG_REFRESHED)
    => seats[last.seat].hold_until >= last.pre[last.seat].hold_until

\* C4 as stated: right after a sweep at time now (expire_holds alone, or the
\* sweep of get_seat_map and the projection it returns), and in the table every
\* engine call decides on (the sweep of any reachable table at the current
\* time), every HOLD seat has hold_until in the future relative to now.
C4_HoldStrictlyAhead ==
    /\ last.op \in {"expire_holds", "get_seat_map"} =>
          \A s \in Seats : seats[s].status = HOLD =>
              seats[s].hold_until # NoTime /\ seats[s].hold_until > last.now
    /\ (last.op = "get_seat_map" /\ last.ok) =>
          \A s \in Seats : last.codes[s].status = HOLD =>
              last.codes[s].hold_until # NoTime /\ last.codes[s].hold_until > last.now
    /\ \A s \in Seats : expire_holds(seats, clock)[s].status = HOLD =>
          /\ expire_holds(seats, clock)[s].hold_until # NoTime
          /\ expire_holds(seats, clock)[s].hold_until > clock

\* C4 amended: ... every HOLD seat has hold_until at or after now: a seat
\* whose hold_until has passed is never HOLD, one whose hold_until equals now
\* still is.
C4_NoStaleHoldAfterSweep ==
    /\ last.op \in {"expire_holds", "get_seat_map"} =>
          \A s \in Seats : seats[s].status = HOLD =>
              seats[s].hold_until # NoTime /\ seats[s].hold_until >= last.now
    /\ (last.op = "get_seat_map" /\ last.ok) =>
          \A s \in Seats : last.codes[s].status = HOLD =>
              last.codes[s].hold_until # NoTime /\ last.codes[s].hold_until >= last.now
    /\ \A s \in Seats : expire_holds(seats, clock)[s].status = HOLD =>
          /\ expire_holds(seats, clock)[s].hold_until # NoTime
          /\ expire_holds(seats, clock)[s].hold_until >= clock

\* a seat map was served from a table with one stale hold, now swept, and one
\* hold still running
C4_Witness ==
    /\ last.op = "get_seat_map" /\ last.ok
    /\ \E s \in Seats : StaleAt(last.pre[s], last.now) /\ seats[s].status = AVAILABLE
    /\ \E s \in Seats : last.codes[s].status = HOLD

\* the caller's quota is free at the call's own now
QuotaFree == Cardinality(HoldsOf(last.pre, last.token, last.now)) < maxHold

\* C5: a seat held by another token with hold_until = t is not acquired by
\* hold_seat at any time <= t, and with quota free every hold_seat at a time
\* > t succeeds and leaves the seat HOLD under the caller's token.
C5_ExpiryMonotonic ==
    (/\ last.op = "hold_seat" /\ last.trip = TripId /\ last.seat \in Seats
     /\ last.pre[last.seat].status = HOLD
     /\ last.pre[last.seat].hold_token # last.token)
    => /\ last.now <= last.pre[last.seat].hold_until
          => ~last.ok /\ seats[last.seat] = last.pre[last.seat]
       /\ (last.now > last.pre[last.seat].hold_until /\ QuotaFree)
          => /\ last.ok
             /\ seats[last.seat].status = HOLD
             /\ seats[last.seat].hold_token = last.token

\* the hold of another token had lapsed by the call's now, though not yet when
\* the call's sweep ran, and the caller took the seat
C5_Witness ==
    /\ last.op = "hold_seat" /\ last.seat \in Seats /\ last.ok
    /\ last.pre[last.seat].status = HOLD
    /\ last.pre[last.seat].hold_token # last.token
    /\ last.began <= last.pre[last.seat].hold_until
    /\ last.now > last.pre[last.seat].hold_until
    /\ seats[last.seat].hold_token = last.token

\* the rows a call at last.now selects as the caller's unexpired holds
Mine == HoldsOf(last.pre, last.token, last.now)

\* C6: a successful attach_contact_and_generate_claim writes one fresh
\* claim_code, with the given name and contact, onto every unexpired HOLD seat
\* of the trip under the caller's token, and changes claim_code, customer_name
\* and customer_wa of no seat held by another token; on the trip it fails with
\* the no-active-hold error when the caller holds no such seat.
C6_ClaimCohort ==
    (last.op = "attach_contact_and_generate_claim" /\ last.trip = TripId)
    => /\ last.ok <=> Mine # {}
       /\ ~last.ok => last.message = MSG_NO_ACTIVE_HOLD
       /\ last.ok =>
             /\ last.claim # NoCode
             /\ \A s \in Seats : last.pre[s].claim_code # last.claim
             /\ \A s \in Mine :
                   /\ seats[s].claim_code = last.claim
                   /\ seats[s].customer_wa = Strip(last.wa)
                   /\ seats[s].customer_name \in {Strip(n) : n \in NameInputs}
             /\ \A s \in Seats :
                   (HeldAt(last.pre[s], last.began) /\ last.pre[s].hold_token # last.token)
                   => /\ seats[s].claim_code = last.pre[s].claim_code
                      /\ seats[s].customer_name = last.pre[s].customer_name
                      /\ seats[s].customer_wa = last.pre[s].customer_wa

\* the caller received a second, different code while a seat of another token
\* kept the first code and its contact
C6_Witness ==
    /\ last.op = "attach_contact_and_generate_claim" /\ last.ok
    /\ \E s \in Mine : seats[s].claim_code = last.claim
    /\ \E s \in Seats :
          /\ HeldAt(last.pre[s], last.now) /\ last.pre[s].hold_token # last.token
          /\ last.pre[s].claim_code # NoCode
          /\ seats[s] = last.pre[s]

\* the rows a claim_hold_by_code call selects
Claimed ==
    {s \in Seats : /\ HeldAt(last.pre[s], last.now)
                   /\ last.pre[s].claim_code = last.claim
                   /\ (last.wa \notin {NULL, ""} => last.pre[s].customer_wa = Strip(last.wa))}

ClaimTransfers ==
    \A s \in Claimed : seats[s] = [last.pre[s] EXCEPT !.hold_token = last.token]

\* C7 as stated: a successful claim_hold_by_code sets hold_token on the
\* selected seats and changes nothing else, on those seats or any other.
C7_ClaimChangesTokenOnly ==
    (last.op = "claim_hold_by_code" /\ last.ok)
    => /\ Claimed # {}
       /\ ClaimTransfers
       /\ \A s \in Seats \ Claimed : seats[s] = last.pre[s]

\* C7 amended: ... and changes nothing else, except that the other seats whose
\* hold had expired when the call began are reset by its leading sweep.
C7_ClaimChangesTokenAndSweeps ==
    (last.op = "claim_hold_by_code" /\ last.ok)
    => /\ Claimed # {}
       /\ ClaimTransfers
       /\ \A s \in Seats \ Claimed : seats[s] = AfterSweep(last.pre[s], last.began)

\* a cohort was moved to another token under a contact filter, its deadline
\* and contact kept
C7_Witness ==
    /\ last.op = "claim_hold_by_code" /\ last.ok
    /\ last.wa \notin {NULL, ""}
    /\ \E s \in Claimed :
          /\ last.pre[s].hold_token # last.token
          /\ seats[s].hold_token = last.token
          /\ seats[s].hold_until = last.pre[s].hold_until
          /\ seats[s].customer_wa = last.pre[s].customer_wa

AdminOps == {"admin_generate_booking_code_and_book", "confirm_booked_by_admin"}

\* the requested seats of the last admin call
RequestedSeats ==
    IF last.trip = TripId THEN {last.codes[i] : i \in DOMAIN last.codes} \cap Seats
    ELSE {}

SomeRequestedBooked ==
    /\ last.op \in AdminOps
    /\ \E s \in RequestedSeats : last.pre[s].status = BOOKED

C10_HoldWellFormed ==
    \A s \in Seats :
        seats[s].status = HOLD =>
            /\ seats[s].hold_token # NULL
            /\ seats[s].hold_until # NoTime
            /\ seats[s].booking_code = NoCode

\* a held cohort with contact and claim code, transferred to another token,
\* beside a BOOKED seat carrying a booking code
C10_Witness ==
    /\ last.op = "claim_hold_by_code" /\ last.ok
    /\ \E s \in Seats : seats[s].status = HOLD /\ seats[s].claim_code # NoCode
    /\ \E s \in Seats : seats[s].status = BOOKED /\ seats[s].booking_code # NoCode

-----------------------------------------------------------------------------

\* C11: every AVAILABLE seat has no hold_token, no hold_until and no
\* claim_code.
C11_AvailableWellFormed ==
    \A s \in Seats :
        seats[s].status = AVAILABLE =>
            /\ seats[s].hold_token = NULL
            /\ seats[s].hold_until = NoTime
            /\ seats[s].claim_code = NoCode

\* a held seat carrying a claim code was released by its owner while a stale
\* hold carrying a claim code was swept: both are AVAILABLE
C11_Witness ==
    /\ last.op = "release_seat" /\ last.ok
    /\ last.pre[last.seat].claim_code # NoCode
    /\ seats[last.seat].status = AVAILABLE
    /\ \E s \in Seats \ {last.seat} :
          /\ StaleAt(last.pre[s], last.began) /\ last.pre[s].claim_code # NoCode
          /\ seats[s].status = AVAILABLE

\* C12: every BOOKED seat has no hold_token and no hold_until and has
\* booked_at, whichever finalize variant booked it, from AVAILABLE or HOLD.
C12_BookedWellFormed ==
    /\ \A s \in Seats :
          seats[s].status = BOOKED =>
              /\ seats[s].hold_token = NULL
              /\ seats[s].hold_until = NoTime
              /\ seats[s].booked_at # NoTime
    /\ (last.op \in {"admin_generate_booking_code_and_book", "confirm_booked_by_admin"}
        /\ last.ok /\ last.trip = TripId)
       => \A i \in DOMAIN last.codes :
             /\ seats[last.codes[i]].status = BOOKED
             /\ seats[last.codes[i]].booked_at = last.now

\* the legacy variant booked a seat on hold and an available seat in one call
C12_Witness ==
    /\ last.op = "confirm_booked_by_admin" /\ last.ok
    /\ \E i \in DOMAIN last.codes : HeldAt(last.pre[last.codes[i]], last.now)
    /\ \E i \in DOMAIN last.codes : last.pre[last.codes[i]].status = AVAILABLE
    /\ \A i \in DOMAIN last.codes : seats[last.codes[i]].status = BOOKED

\* the seat of the last release_seat call is one its caller actively holds
ReleaseAllowed ==
    /\ last.trip = TripId /\ last.seat \in Seats
    /\ HeldAt(last.pre[last.seat], last.now)
    /\ last.pre[last.seat].hold_token = last.token

\* success and the two failures of release_seat; on a failure the seat is as
\* stored, or (swept) as the leading sweep leaves it
ReleaseOutcome(swept) ==
    last.op = "release_seat" =>
       /\ last.ok <=> ReleaseAllowed
       /\ last.ok =>
             seats[last.seat] =
                 [last.pre[last.seat] EXCEPT !.status = AVAILABLE, !.hold_token = NULL,
                                             !.hold_until = NoTime,
                                             !.customer_name = NULL,
                                             !.customer_wa = NULL,
                                             !.claim_code = NoCode]
       /\ (~last.ok /\ last.trip = TripId /\ last.seat \in Seats) =>
             /\ last.message =
                   IF HeldAt(last.pre[last.seat], last.now)
                   THEN MSG_FORBIDDEN ELSE MSG_NOT_HELD
             /\ seats[last.seat] =
                   IF swept THEN AfterSweep(last.pre[last.seat], last.began)
                   ELSE last.pre[last.seat]

-----------------------------------------------------------------------------

\* the table the last call found once its leading sweep had run
Swept == expire_holds(last.pre, last.began)

\* the other finalize variant, run in place of the last admin call
AsConfirm == confirm_booked_by_admin(Swept, last.trip, last.codes, last.now)
AsBook ==
    admin_generate_booking_code_and_book(Swept, last.trip, last.codes, last.now, bookCnt)

\* row with the booking_code it had before the call
StoredCode(row, s) == [row EXCEPT !.booking_code = last.pre[s].booking_code]

\* C14: from the same state, with the same trip and seat codes, the two admin
\* finalize variants succeed or fail alike and leave seats that agree on every
\* field but booking_code: the primary variant writes one fresh code shared by
\* the requested seats, the legacy variant leaves booking_code as stored.
C14_FinalizeVariantsAgree ==
    /\ last.op = "admin_generate_booking_code_and_book" =>
          /\ AsConfirm.result.ok = last.ok
          /\ ~last.ok => AsConfirm.result.message = last.message
          /\ \A s \in Seats : AsConfirm.seats[s] = StoredCode(seats[s], s)
          /\ last.ok =>
                \E code \in 1..MaxBookingCodes :
                    /\ \A s \in Seats : last.pre[s].booking_code # code
                    /\ \A s \in RequestedSeats : seats[s].booking_code = code
    /\ last.op = "confirm_booked_by_admin" =>
          /\ AsBook.result.ok = last.ok
          /\ ~last.ok => AsBook.result.message = last.message
          /\ \A s \in Seats : seats[s] = StoredCode(AsBook.seats[s], s)
          /\ \A s \in Seats : seats[s].booking_code = last.pre[s].booking_code

\* the primary variant booked two seats, one of them on hold with a claim
\* code, under one booking code; the legacy variant would have booked both
C14_Witness ==
    /\ last.op = "admin_generate_booking_code_and_book" /\ last.ok
    /\ Cardinality(RequestedSeats) = 2
    /\ \E s \in RequestedSeats :
          HeldAt(last.pre[s], last.now) /\ last.pre[s].claim_code # NoCode
    /\ \A s \in RequestedSeats : seats[s].booking_code # NoCode
    /\ AsConfirm.result.ok
    /\ \A s \in RequestedSeats : AsConfirm.seats[s].status = BOOKED

\* the seats whose hold_until lies strictly before the sweep's now
StaleSeats == {s \in Seats : StaleAt(last.pre[s], last.now)}

\* C15: expire_holds at time now changes exactly the HOLD seats with
\* hold_until strictly before now: they become AVAILABLE with hold_token,
\* hold_until, customer_name, customer_wa and claim_code cleared, booking_code
\* and booked_at as stored; it returns how many it changed; a second sweep at
\* the same now, or a sweep with nothing expired, returns 0 and changes nothing.
C15_SweepEffect ==
    last.op = "expire_holds" =>
       /\ \A s \in StaleSeats :
             seats[s] = [last.pre[s] EXCEPT !.status = AVAILABLE, !.hold_token = NULL,
                                            !.hold_until = NoTime,
                                            !.customer_name = NULL,
                                            !.customer_wa = NULL,
                                            !.claim_code = NoCode]
       /\ \A s \in Seats \ StaleSeats : seats[s] = last.pre[s]
       /\ {s \in Seats : seats[s] # last.pre[s]} = StaleSeats
       /\ last.seat = Cardinality(StaleSeats)
       /\ StaleSeats = {} => (last.seat = 0 /\ seats = last.pre)
       /\ ExpiredCount(seats, last.now) = 0
       /\ expire_holds(seats, last.now) = seats

\* a sweep reset one stale hold that carried contact and a claim code,
\* returned 1, and left a running hold alone
C15_Witness ==
    /\ last.op = "expire_holds" /\ last.seat = 1
    /\ \E s \in StaleSeats :
          last.pre[s].claim_code # NoCode /\ seats[s].status = AVAILABLE
    /\ \E s \in Seats : HeldAt(last.pre[s], last.now) /\ seats[s] = last.pre[s]

-----------------------------------------------------------------------------
(* Properties of two multi-seat calls served together *)

\* the call of worker record t served alone on table S, with the code
\* counters cb (booking) and cc (claim)
RunCall(t, S, cb, cc) ==
    LET W == expire_holds(S, t.now)
    IN CASE t.op = "book" ->
              LET r == admin_generate_booking_code_and_book(W, TripId, t.codes, t.now, cb)
              IN [seats |-> r.seats, result |-> r.result, cb |-> r.cnt, cc |-> cc]
         [] t.op = "confirm" ->
              LET r == confirm_booked_by_admin(W, TripId, t.codes, t.now)
              IN [seats |-> r.seats, result |-> r.result, cb |-> cb, cc |-> cc]
         [] t.op = "attach" ->
              LET r == attach_contact_and_generate_claim(W, TripId, t.token, " Budi ",
                                                         "0812", t.now, cc)
              IN [seats |-> r.seats, result |-> r.result, cb |-> cb, cc |-> r.cnt]
         [] t.op = "claim" ->
              LET r == claim_hold_by_code(W, TripId,
                                          [code |-> t.claim, form |-> " abcd-efgh "],
                                          t.token, NULL, t.now)
              IN [seats |-> r.seats, result |-> r.result, cb |-> cb, cc |-> cc]

\* the table and the two results are those of p's call followed by q's call
SerialOutcome(p, q) ==
    LET a == RunCall(tx[p], last.pre, 0, 1)
        b == RunCall(tx[q], a.seats, a.cb, a.cc)
    IN seats = b.seats /\ res[p] = a.result /\ res[q] = b.result

\* the seats of the starting table a call reads or writes past its sweep
Touched(t) ==
    LET W == expire_holds(last.pre, t.now)
    IN CASE t.op \in {"book", "confirm"} -> Range(t.codes) \cap Seats
         [] t.op = "attach" ->
              {s \in Seats : IsActiveHold(W[s], t.now) /\ W[s].hold_token = t.token}
         [] t.op = "claim" ->
              {s \in Seats : IsActiveHold(W[s], t.now) /\ W[s].claim_code = t.claim}

BothReturned(p, q) ==
    /\ p # q /\ tx[p].pc = "done" /\ tx[q].pc = "done"
    /\ Touched(tx[p]) \cap Touched(tx[q]) # {}

Finalize(p) == tx[p].op \in {"book", "confirm"}

\* C16: two engine calls that touch a common seat, interleaved in any way,
\* end as one of their two serial orders would; two finalize calls on
\* overlapping seat sets never both succeed: the later one fails with the
\* already-booked error.
C16_Serializable ==
    \A p \in Procs : \A q \in Procs :
        BothReturned(p, q) =>
            /\ SerialOutcome(p, q) \/ SerialOutcome(q, p)
            /\ (Finalize(p) /\ Finalize(q)) =>
                  /\ ~(res[p].ok /\ res[q].ok)
                  /\ (res[p].ok /\ ~res[q].ok /\ Cardinality(Range(tx[q].codes) \cap Seats) = Len(tx[q].codes))
                     => res[q].message = MSG_ALREADY_BOOKED

\* C16, the finalize case alone: two finalize calls on overlapping seat sets
\* never both succeed
C16_NoDoubleFinalize ==
    \A p \in Procs : \A q \in Procs :
        (BothReturned(p, q) /\ Finalize(p) /\ Finalize(q)) => ~(res[p].ok /\ res[q].ok)

\* worker p's UPDATE is under way and has written a row
Updating(p) == tx[p].pc = "updating" /\ tx'[p].pc = "updating" /\ tx'[p].locks # tx[p].locks

\* C18: a multi-seat call holds the locks of its whole affected seat set
\* before it writes any of them and takes them in ascending seat-code order,
\* so two such calls on overlapping sets never wait for each other.
C18_OrderedLockingNoDeadlock ==
    /\ [][\A p \in Procs :
             Updating(p) =>
                 \A s \in tx'[p].locks \ tx[p].locks :
                     /\ tx[p].todo \subseteq tx[p].locks
                     /\ \A s2 \in tx[p].todo : s <= s2]_vars
    /\ []~Deadlocked

-----------------------------------------------------------------------------

\* values of the fields the seat map must not depend on
Privates ==
    { [hold_token |-> NULL, customer_name |-> NULL, customer_wa |-> NULL,
       claim_code |-> NoCode, booking_code |-> NoCode],
      [hold_token |-> "tokenA", customer_name |-> "Budi", customer_wa |-> "0812",
       claim_code |-> 1, booking_code |-> NoCode],
      [hold_token |-> "tokenB", customer_name |-> "Budi", customer_wa |-> "0813",
       claim_code |-> MaxClaimCodes, booking_code |-> NoCode],
      [hold_token |-> NULL, customer_name |-> NULL, customer_wa |-> NULL,
       claim_code |-> NoCode, booking_code |-> 1] }

\* table S with the private fields of every seat replaced by those of V
WithPrivates(S, V) ==
    [s \in Seats |->
        [S[s] EXCEPT !.hold_token = V[s].hold_token,
                     !.customer_name = V[s].customer_name,
                     !.customer_wa = V[s].customer_wa,
                     !.claim_code = V[s].claim_code,
                     !.booking_code = V[s].booking_code]]

\* C17: the result of get_seat_map is the same from any two tables that differ
\* only in hold_token, claim_code, booking_code, customer_name or customer_wa
\* of their seats.
C17_SeatMapPrivacy ==
    last.op = "get_seat_map" =>
        \A V \in [Seats -> Privates] :
            LET r == get_seat_map(expire_holds(WithPrivates(last.pre, V), last.now),
                                  last.trip)
            IN /\ r.result.ok = last.ok
               /\ r.result.message = last.message
               /\ r.data = last.codes

\* a seat map was served from a table with a seat on hold under a token with
\* contact and claim code, and a booked seat with a booking code
C17_Witness ==
    /\ last.op = "get_seat_map" /\ last.ok
    /\ \E s \in Seats :
          /\ HeldAt(last.pre[s], last.now)
          /\ last.pre[s].claim_code # NoCode /\ last.pre[s].customer_wa # NULL
          /\ last.codes[s].status = HOLD
    /\ \E s \in Seats :
          /\ last.pre[s].booking_code # NoCode
          /\ last.codes[s].status = BOOKED

-----------------------------------------------------------------------------

\* the last call was a hold_seat that refreshed the caller's own hold
Refreshed == last.op = "hold_seat" /\ last.ok /\ last.message = MSG_REFRESHED

\* C19: a successful same-token refresh changes only hold_until of the target
\* seat, and extends the hold_until of no other seat the token holds.
C19_RefreshFrame ==
    Refreshed =>
       /\ HeldAt(last.pre[last.seat], last.now)
       /\ last.pre[last.seat].hold_token = last.token
       /\ \A f \in DOMAIN NewSeat \ {"hold_until"} :
             seats[last.seat][f] = last.pre[last.seat][f]
       /\ \A s \in Seats \ {last.seat} :
             (HeldAt(last.pre[s], last.began) /\ last.pre[s].hold_token = last.token)
             => seats[s] = last.pre[s]

\* the token held two seats of one claim cohort and refreshed one: the other
\* kept its earlier deadline
C19_Witness ==
    /\ Refreshed
    /\ last.pre[last.seat].claim_code # NoCode
    /\ seats[last.seat].hold_until > last.pre[last.seat].hold_until
    /\ \E s \in Seats \ {last.seat} :
          /\ HeldAt(last.pre[s], last.now)
          /\ last.pre[s].hold_token = last.token
          /\ last.pre[s].claim_code = last.pre[last.seat].claim_code
          /\ seats[s].hold_until = last.pre[s].hold_until
          /\ seats[s].hold_until < seats[last.seat].hold_until

-----------------------------------------------------------------------------

\* C20: every successful acquire through hold_seat leaves the seat without
\* customer_name, customer_wa, claim_code, booked_at and booking_code; a seat
\* never carries again a claim code of a hold of its that is over, and no
\* claim_hold_by_code presenting such a code changes the seat's hold_token.
C20_ClaimCodeStaysBehind ==
    /\ (last.op = "hold_seat" /\ last.ok /\ last.message = MSG_ACQUIRED) =>
          /\ seats[last.seat].customer_name = NULL
          /\ seats[last.seat].customer_wa = NULL
          /\ seats[last.seat].claim_code = NoCode
          /\ seats[last.seat].booked_at = NoTime
          /\ seats[last.seat].booking_code = NoCode
    /\ \A s \in Seats : seats[s].claim_code \notin shed[s]
    /\ (last.op = "claim_hold_by_code" /\ last.ok) =>
          \A s \in Seats :
              last.claim \in shed[s] =>
                  seats[s].hold_token = AfterSweep(last.pre[s], last.began).hold_token

\* a cohort of two seats got a claim code, one of them was given up and taken
\* by another session, and a claim presenting the code moved the other seat
\* only
C20_Witness ==
    /\ last.op = "claim_hold_by_code" /\ last.ok
    /\ \E s \in Seats :
          /\ last.claim \in shed[s]
          /\ HeldAt(seats[s], last.now)
          /\ seats[s].hold_token # last.token
          /\ seats[s] = last.pre[s]
    /\ \E s \in Seats :
          /\ last.pre[s].claim_code = last.claim
          /\ last.pre[s].hold_token # last.token
          /\ seats[s].hold_token = last.token

-----------------------------------------------------------------------------

\* the last call named a seat that was BOOKED when it began
TargetsBooked ==
    \/ /\ last.op \in {"hold_seat", "release_seat"}
       /\ last.trip = TripId /\ last.seat \in Seats
       /\ last.pre[last.seat].status = BOOKED
    \/ SomeRequestedBooked

\* C21: once a seat is BOOKED no call changes its status or any other of its
\* stored fields (booking_code, booked_at, contact, claim_code): no step of any
\* behaviour changes a row whose status is BOOKED.
C21_BookedIsAbsorbing ==
    [][\A s \in Seats : seats[s].status = BOOKED => seats'[s] = seats[s]]_vars

\* C21, for calls served one after another: a row that was BOOKED when the
\* call began is as it was when the call returns, and a call that names such a
\* row fails.
C21_SerialCallsLeaveBooked ==
    /\ \A s \in Seats : last.pre[s].status = BOOKED => seats[s] = last.pre[s]
    /\ TargetsBooked => ~last.ok

\* C22: any two unexpired HOLD seats of the trip with the same claim_code
\* carry the same hold_token, customer_name and customer_wa.
C22_CohortCoherent ==
    \A s1 \in Seats : \A s2 \in Seats :
        (/\ HeldAt(seats[s1], clock) /\ HeldAt(seats[s2], clock)
         /\ seats[s1].claim_code # NoCode
         /\ seats[s1].claim_code = seats[s2].claim_code)
        => /\ seats[s1].hold_token = seats[s2].hold_token
           /\ seats[s1].customer_name = seats[s2].customer_name
           /\ seats[s1].customer_wa = seats[s2].customer_wa

\* a cohort of two seats with different deadlines was moved as a whole to
\* another token
C22_Witness ==
    /\ last.op = "claim_hold_by_code" /\ last.ok
    /\ \E s1 \in Seats : \E s2 \in Seats \ {s1} :
          /\ HeldAt(seats[s1], clock) /\ HeldAt(seats[s2], clock)
          /\ seats[s1].claim_code = last.claim /\ seats[s2].claim_code = last.claim
          /\ seats[s1].hold_until # seats[s2].hold_until
          /\ last.pre[s1].hold_token # last.token
          /\ seats[s1].hold_token = last.token /\ seats[s2].hold_token = last.token

=============================================================================
